---- MODULE Spec2Model ----
(***************************************************************************)
(* Model of src/legal_chatbot.py: the startup sequence of __main__, the    *)
(* document loader (extract_text_from_file / extract_text_from_pdf) and    *)
(* the read-eval-print loop of chat_with_openai.                           *)
(*                                                                         *)
(* Strings are sequences of one-character strings, so that str.strip,      *)
(* str.lower and "\n\n".join are computed rather than assumed.             *)
(***************************************************************************)
EXTENDS Integers, Sequences, FiniteSets, TLC

VARIABLES
    pc,             \* position of the process: "main", "load", "chat",
                    \* "awaiting", "calling", "exited", or "loader"
    env_key,        \* "OPENAI_API_KEY" in os.environ
    dotenv_key,     \* the .env file defines OPENAI_API_KEY
    client,         \* the OpenAI client object exists
    judgment_text,  \* __main__'s judgment_text
    system_prompt,  \* chat_with_openai's system_prompt
    messages,       \* chat_with_openai's messages
    raw_line,       \* the line last returned by input()
    user_input,     \* chat_with_openai's user_input
    signal,         \* the exception last raised inside the loop, "" once a
                    \* completion has succeeded
    n_reads,        \* number of lines input() has returned
    n_requests,     \* number of calls of client.chat.completions.create
    request,        \* the messages argument of the last such call
    out,            \* the messages printed by the last step
    exit_status,    \* exit status of the process, -1 while it runs
    file,           \* the file the last document-loader call was given
    result,         \* what that call returned
    raised,         \* whether that call raised to its caller
    opened,         \* PDF document handles opened so far (fitz.open)
    closed,         \* PDF document handles closed so far (doc.close)
    n_loads         \* number of calls of extract_text_from_file

vars == <<pc, env_key, dotenv_key, client, judgment_text, system_prompt,
          messages, raw_line, user_input, signal, n_reads, n_requests,
          request, out, exit_status, file, result, raised, opened, closed,
          n_loads>>

chat_vars == <<judgment_text, system_prompt, messages, raw_line, user_input,
               signal, n_reads, n_requests, request>>

loader_vars == <<file, result, raised, opened, closed, n_loads>>

env_vars == <<env_key, dotenv_key, client>>

----------------------------------------------------------------------------
(* Bounds *)

\* lines input() may return during one run
MaxInputs == 3

\* pages of a PDF document
MaxPages == 2

\* calls of extract_text_from_file in the loader specification
MaxLoads == 3

----------------------------------------------------------------------------
(* Strings *)

UpperLetters ==
    <<"A","B","C","D","E","F","G","H","I","J","K","L","M",
      "N","O","P","Q","R","S","T","U","V","W","X","Y","Z">>

LowerLetters ==
    <<"a","b","c","d","e","f","g","h","i","j","k","l","m",
      "n","o","p","q","r","s","t","u","v","w","x","y","z">>

\* the characters str.strip() removes
Whitespace == {" ", "\t", "\n"}

LowerChar(c) ==
    IF \E i \in 1..26 : UpperLetters[i] = c
    THEN LowerLetters[CHOOSE i \in 1..26 : UpperLetters[i] = c]
    ELSE c

\* str.lower()
lower(s) == [i \in 1..Len(s) |-> LowerChar(s[i])]

\* str.lstrip()
RECURSIVE lstrip(_)
lstrip(s) ==
    IF s # <<>> /\ Head(s) \in Whitespace THEN lstrip(Tail(s)) ELSE s

\* str.rstrip()
RECURSIVE rstrip(_)
rstrip(s) ==
    IF s # <<>> /\ s[Len(s)] \in Whitespace
    THEN rstrip(SubSeq(s, 1, Len(s) - 1))
    ELSE s

\* the line used as input() returned it, without .strip()
strip_None(s) == s

\* str.strip()
strip(s) == rstrip(lstrip(s))

\* sep.join(parts)
RECURSIVE join(_, _)
join(sep, parts) ==
    IF parts = <<>> THEN <<>>
    ELSE IF Len(parts) = 1 THEN parts[1]
    ELSE parts[1] \o sep \o join(sep, Tail(parts))

----------------------------------------------------------------------------
(* The file system as the document loader sees it *)

PdfExt == <<".", "p", "d", "f">>

\* os.path.splitext(file_path)[1] of the paths tried
Exts == { PdfExt, <<".", "P", "d", "F">>, <<".", "t", "x", "t">>, <<>> }

\* what page.get_text() does on one page: returns text, or raises
PageResults ==
    { [ok |-> TRUE, text |-> <<"a">>],
      [ok |-> TRUE, text |-> <<>>],
      [ok |-> FALSE, text |-> <<>>] }

PageSeqs == UNION { [1..n -> PageResults] : n \in 0..MaxPages }

\* what fitz.open(path) does: raises, or yields a document of some pages
PdfViews ==
    { [open_ok |-> FALSE, pages |-> <<>>] }
    \cup { [open_ok |-> TRUE, pages |-> p] : p \in PageSeqs }

\* what open(path, "r", encoding="utf-8").read() does: raises (I/O or
\* decoding error), or returns the decoded contents
TextViews ==
    { [read_ok |-> FALSE, content |-> <<>>],
      [read_ok |-> TRUE, content |-> <<"T", "\n">>] }

MkFile(e, x, pv, tv) ==
    [exists |-> e, ext |-> x, open_ok |-> pv.open_ok, pages |-> pv.pages,
     read_ok |-> tv.read_ok, content |-> tv.content]

NoFile ==
    [exists |-> FALSE, ext |-> <<>>, open_ok |-> FALSE, pages |-> <<>>,
     read_ok |-> FALSE, content |-> <<>>]

\* the files a path of extension x may name; one named as a PDF is taken
\* to be binary, not decodable as UTF-8 text
FilesWithExt(x) ==
    { [NoFile EXCEPT !.ext = x] }
    \cup { MkFile(TRUE, x, pv, tv) :
               pv \in PdfViews,
               tv \in IF lower(x) = PdfExt
                      THEN { [read_ok |-> FALSE, content |-> <<>>] }
                      ELSE TextViews }

Files == UNION { FilesWithExt(x) : x \in Exts }

\* the extension of __main__'s judgment_file
JudgmentExt == PdfExt

----------------------------------------------------------------------------
(* The document loader.  A call yields a record: exc (an exception leaves  *)
(* the call), text (the value returned), opened and closed (PDF handles   *)
(* opened and closed by the call) and out (what it printed).              *)

Outcome(e, t, o, c, p) ==
    [exc |-> e, text |-> t, opened |-> o, closed |-> c, out |-> p]

\* the try block of extract_text_from_pdf
PdfTry(f) ==
    LET banner == <<"Extracting text from PDF">>
    IN  IF ~f.open_ok
        THEN Outcome(TRUE, <<>>, 0, 0, banner)
        ELSE IF \E i \in 1..Len(f.pages) : ~f.pages[i].ok
        THEN Outcome(TRUE, <<>>, 1, 0, banner)
        ELSE Outcome(FALSE,
                     join(<<"\n", "\n">>,
                          [i \in 1..Len(f.pages) |-> f.pages[i].text]),
                     1, 1, banner)

extract_text_from_pdf(f) ==
    LET b == PdfTry(f)
    IN  IF b.exc
        THEN Outcome(FALSE, <<>>, b.opened, b.closed,
                     b.out \o <<"Error extracting text from PDF">>)
        ELSE b

\* the try block with the extension compared without .lower()
FileTry_CaseSensitive(f) ==
    IF ~f.exists
    THEN Outcome(FALSE, <<>>, 0, 0, <<"Error: File does not exist">>)
    ELSE IF f.ext = PdfExt
    THEN extract_text_from_pdf(f)
    ELSE IF ~f.read_ok
    THEN Outcome(TRUE, <<>>, 0, 0, <<>>)
    ELSE Outcome(FALSE, f.content, 0, 0, <<>>)

\* the try block of extract_text_from_file
FileTry(f) ==
    IF ~f.exists
    THEN Outcome(FALSE, <<>>, 0, 0, <<"Error: File does not exist">>)
    ELSE IF lower(f.ext) = PdfExt
    THEN extract_text_from_pdf(f)
    ELSE IF ~f.read_ok
    THEN Outcome(TRUE, <<>>, 0, 0, <<>>)
    ELSE Outcome(FALSE, f.content, 0, 0, <<>>)

\* extract_text_from_file without its except clause
extract_text_from_file_NoCatch(f) == FileTry(f)

extract_text_from_file(f) ==
    LET b == FileTry(f)
    IN  IF b.exc
        THEN Outcome(FALSE, <<>>, b.opened, b.closed,
                     b.out \o <<"Error extracting text from file">>)
        ELSE b

----------------------------------------------------------------------------
(* The chat loop's data *)

\* the template of create_system_prompt before and after {judgment_text}
PromptHead == <<"You are an expert legal assistant ... JUDGMENT CONTEXT:\n">>

PromptTail == <<"\nYour expertise includes: ... informational purposes only.\n">>

create_system_prompt(text) == PromptHead \o text \o PromptTail

Turn(r, c) == [role |-> r, content |-> c]

\* the lines input() returns in the runs explored
Lines ==
    { <<"e", "x", "i", "t">>,
      <<" ", "Q", "u", "i", "t", "\t">>,
      <<"Q">>,
      <<"c", "l", "e", "a", "r">>,
      <<" ", "C", "L", "e", "a", "r", " ">>,
      <<>>,
      <<" ", "\t">>,
      <<"H", "i">>,
      <<" ", "H", "i", " ">>,
      <<"l", "o", "a", "d", " ", "j", "u", "d", "g", "m", "e", "n", "t">> }

\* the list tested at the exit branch
ExitCommands ==
    { <<"e", "x", "i", "t">>, <<"q", "u", "i", "t">>, <<"q">> }

ClearCommand == <<"c", "l", "e", "a", "r">>

\* the exit test without .lower()
IsExit_CaseSensitive(s) == s \in ExitCommands

IsExit(s) == lower(s) \in ExitCommands

\* the clear test without .lower()
IsClear_CaseSensitive(s) == s = ClearCommand

IsClear(s) == lower(s) = ClearCommand

\* message.content of the choices a response may carry
Replies == { <<"x">>, <<"y">> }

\* response.choices: possibly empty
ChoiceLists == UNION { [1..n -> Replies] : n \in 0..2 }

\* exceptions client.chat.completions.create raises
ApiErrors == { "APIConnectionError", "AuthenticationError", "RateLimitError" }

\* exceptions input() raises
InputSignals == { "EOFError", "KeyboardInterrupt" }

\* "except BaseException", or a bare "except:"
IsException_Base(e) == TRUE

\* "except Exception": KeyboardInterrupt derives from BaseException only
IsException(e) == e # "KeyboardInterrupt"

\* "except EOFError" alone
IsInputExit_EofOnly(e) == e = "EOFError"

\* "except (EOFError, KeyboardInterrupt)"
IsInputExit(e) == e \in { "EOFError", "KeyboardInterrupt" }

Rule == "--------------------------------------------------"

----------------------------------------------------------------------------
(* Startup: __main__ *)

Init ==
    /\ pc = "main"
    /\ env_key \in BOOLEAN
    /\ dotenv_key \in BOOLEAN
    /\ client = FALSE
    /\ judgment_text = <<>>
    /\ system_prompt = <<>>
    /\ messages = <<>>
    /\ raw_line = <<>>
    /\ user_input = <<>>
    /\ signal = ""
    /\ n_reads = 0
    /\ n_requests = 0
    /\ request = <<>>
    /\ out = <<>>
    /\ exit_status = -1
    /\ file = NoFile
    /\ result = <<>>
    /\ raised = FALSE
    /\ opened = 0
    /\ closed = 0
    /\ n_loads = 0

\* the handler "except Exception as e" of __main__, then the end of the script
CriticalError(msg) ==
    /\ out' = <<"Critical Error", msg>>
    /\ pc' = "exited"
    /\ exit_status' = 0

\* an exception that reaches __main__: "except Exception" handles it, a
\* KeyboardInterrupt ends the process with the interpreter's traceback
Propagate(e) ==
    IF IsException(e)
    THEN CriticalError(e)
    ELSE /\ out' = <<"Traceback", e>>
         /\ pc' = "exited"
         /\ exit_status' \in {1, 130}

\* initialize_openai without the test of os.environ
InitializeOpenAI_NoCheck ==
    /\ pc = "main"
    /\ env_key' = (env_key \/ dotenv_key)
    /\ client' = TRUE
    /\ out' = <<"OpenAI client initialized successfully.">>
    /\ pc' = "load"
    /\ exit_status' = exit_status
    /\ UNCHANGED <<dotenv_key, chat_vars, loader_vars>>

\* initialize_openai, called from __main__
InitializeOpenAI ==
    /\ pc = "main"
    /\ env_key' = (env_key \/ dotenv_key)
    /\ IF ~env_key'
       THEN /\ CriticalError("OPENAI_API_KEY environment variable not found")
            /\ client' = client
       ELSE /\ client' = TRUE
            /\ out' = <<"OpenAI client initialized successfully.">>
            /\ pc' = "load"
            /\ exit_status' = exit_status
    /\ UNCHANGED <<dotenv_key, chat_vars, loader_vars>>

\* one call of extract_text_from_file and its effect on the handles
CallLoader(f, r) ==
    /\ file' = f
    /\ result' = r.text
    /\ raised' = r.exc
    /\ opened' = opened + r.opened
    /\ closed' = closed + r.closed
    /\ n_loads' = n_loads + 1

\* __main__, had it given up when no text was extracted
LoadJudgment_AbortOnEmpty ==
    /\ pc = "load"
    /\ \E f \in FilesWithExt(JudgmentExt) :
         LET r == extract_text_from_file(f)
         IN  /\ CallLoader(f, r)
             /\ IF r.exc \/ r.text = <<>>
                THEN /\ CriticalError("extract_text_from_file")
                     /\ judgment_text' = judgment_text
                ELSE /\ judgment_text' = r.text
                     /\ out' = <<"Loading judgment from">> \o r.out
                     /\ pc' = "chat"
                     /\ exit_status' = exit_status
    /\ UNCHANGED <<env_vars, system_prompt, messages, raw_line, user_input,
                   signal, n_reads, n_requests, request>>

\* __main__ from the loading of the judgment to the call of chat_with_openai
LoadJudgment ==
    /\ pc = "load"
    /\ \E f \in FilesWithExt(JudgmentExt) :
         LET r == extract_text_from_file(f)
         IN  /\ CallLoader(f, r)
             /\ IF r.exc
                THEN /\ CriticalError("extract_text_from_file")
                     /\ judgment_text' = judgment_text
                ELSE /\ judgment_text' = r.text
                     /\ out' = <<"Loading judgment from">> \o r.out
                               \o (IF r.text = <<>>
                                   THEN <<"Warning: No text could be extracted">>
                                   ELSE <<>>)
                     /\ pc' = "chat"
                     /\ exit_status' = exit_status
    /\ UNCHANGED <<env_vars, system_prompt, messages, raw_line, user_input,
                   signal, n_reads, n_requests, request>>

\* chat_with_openai up to the loop
StartChat ==
    /\ pc = "chat"
    /\ system_prompt' = create_system_prompt(judgment_text)
    /\ messages' = <<Turn("system", system_prompt')>>
    /\ out' = <<"LEGAL ASSISTANT CHAT">>
              \o (IF judgment_text # <<>>
                  THEN <<"Judgment loaded successfully.">>
                  ELSE <<>>)
    /\ pc' = "awaiting"
    /\ UNCHANGED <<env_vars, loader_vars, judgment_text, raw_line, user_input,
                   signal, n_reads, n_requests, request, exit_status>>

----------------------------------------------------------------------------
(* The loop of chat_with_openai *)

\* input() returned line: user_input = input("\nYou: ").strip()
ReadLine(line) ==
    /\ pc = "awaiting"
    /\ n_reads < MaxInputs
    /\ raw_line' = line
    /\ user_input' = strip(line)
    /\ n_reads' = n_reads + 1
    /\ signal' = signal

\* the end of chat_with_openai after a break, and of the script after it
LeaveLoop ==
    /\ pc' = "exited"
    /\ exit_status' = 0

\* input() raised EOFError or KeyboardInterrupt
InputSignal ==
    /\ pc = "awaiting"
    /\ \E e \in InputSignals :
         /\ signal' = e
         /\ IF IsInputExit(e)
            THEN /\ out' = <<"Exiting...">>
                 /\ LeaveLoop
            ELSE Propagate(e)
    /\ UNCHANGED <<env_vars, loader_vars, judgment_text, system_prompt,
                   messages, raw_line, user_input, n_reads, n_requests,
                   request>>

\* the branch "if user_input.lower() in [exit, quit, q]"
InputExit ==
    /\ \E line \in Lines : ReadLine(line)
    /\ IsExit(user_input')
    /\ out' = <<"Goodbye! Thank you for using the Legal Assistant.">>
    /\ LeaveLoop
    /\ UNCHANGED <<env_vars, loader_vars, judgment_text, system_prompt,
                   messages, n_requests, request>>

\* the branch "if not user_input: continue"
InputEmpty ==
    /\ \E line \in Lines : ReadLine(line)
    /\ ~IsExit(user_input')
    /\ user_input' = <<>>
    /\ out' = <<>>
    /\ UNCHANGED <<env_vars, loader_vars, judgment_text, system_prompt,
                   messages, n_requests, request, pc, exit_status>>

\* the clear branch with messages = []
InputClear_Empty ==
    /\ \E line \in Lines : ReadLine(line)
    /\ ~IsExit(user_input')
    /\ user_input' # <<>>
    /\ IsClear(user_input')
    /\ messages' = <<>>
    /\ out' = <<"Conversation cleared. Starting fresh.">>
    /\ UNCHANGED <<env_vars, loader_vars, judgment_text, system_prompt,
                   n_requests, request, pc, exit_status>>

\* the branch "if user_input.lower() == clear"
InputClear ==
    /\ \E line \in Lines : ReadLine(line)
    /\ ~IsExit(user_input')
    /\ user_input' # <<>>
    /\ IsClear(user_input')
    /\ messages' = <<Turn("system", system_prompt)>>
    /\ out' = <<"Conversation cleared. Starting fresh.">>
    /\ UNCHANGED <<env_vars, loader_vars, judgment_text, system_prompt,
                   n_requests, request, pc, exit_status>>

\* the request sent before the user turn is appended
InputQuestion_RequestFirst ==
    /\ \E line \in Lines : ReadLine(line)
    /\ ~IsExit(user_input')
    /\ user_input' # <<>>
    /\ ~IsClear(user_input')
    /\ messages' = Append(messages, Turn("user", user_input'))
    /\ n_requests' = n_requests + 1
    /\ request' = messages
    /\ out' = <<"Thinking...">>
    /\ pc' = "calling"
    /\ UNCHANGED <<env_vars, loader_vars, judgment_text, system_prompt,
                   exit_status>>

\* the user turn built from the lower-cased text of the command tests
InputQuestion_Lowered ==
    /\ \E line \in Lines : ReadLine(line)
    /\ ~IsExit(user_input')
    /\ user_input' # <<>>
    /\ ~IsClear(user_input')
    /\ messages' = Append(messages, Turn("user", lower(user_input')))
    /\ n_requests' = n_requests + 1
    /\ request' = messages'
    /\ out' = <<"Thinking...">>
    /\ pc' = "calling"
    /\ UNCHANGED <<env_vars, loader_vars, judgment_text, system_prompt,
                   exit_status>>

\* a handler for "load judgment" that runs the document loader again and
\* starts the transcript over with the new system turn
InputQuestion_LoadHandler ==
    /\ \E line \in Lines : ReadLine(line)
    /\ ~IsExit(user_input')
    /\ user_input' # <<>>
    /\ ~IsClear(user_input')
    /\ IF lower(user_input') =
            <<"l", "o", "a", "d", " ", "j", "u", "d", "g", "m", "e", "n", "t">>
       THEN /\ \E f \in FilesWithExt(JudgmentExt) :
                 LET r == extract_text_from_file(f)
                 IN  /\ CallLoader(f, r)
                     /\ judgment_text' = r.text
                     /\ system_prompt' = create_system_prompt(r.text)
                     /\ out' = r.out
            /\ messages' = <<Turn("system", system_prompt')>>
            /\ UNCHANGED <<n_requests, request, pc>>
       ELSE /\ messages' = Append(messages, Turn("user", user_input'))
            /\ n_requests' = n_requests + 1
            /\ request' = messages'
            /\ out' = <<"Thinking...">>
            /\ pc' = "calling"
            /\ UNCHANGED <<loader_vars, judgment_text, system_prompt>>
    /\ UNCHANGED <<env_vars, exit_status>>

\* messages.append(user turn), then the call of
\* client.chat.completions.create(messages=messages)
InputQuestion ==
    /\ \E line \in Lines : ReadLine(line)
    /\ ~IsExit(user_input')
    /\ user_input' # <<>>
    /\ ~IsClear(user_input')
    /\ messages' = Append(messages, Turn("user", user_input'))
    /\ n_requests' = n_requests + 1
    /\ request' = messages'
    /\ out' = <<"Thinking...">>
    /\ pc' = "calling"
    /\ UNCHANGED <<env_vars, loader_vars, judgment_text, system_prompt,
                   exit_status>>

\* the handler, had it removed the user turn of the failed exchange
TurnError_Rollback(e) ==
    /\ out' = <<"Error", e, Rule>>
    /\ pc' = "awaiting"
    /\ messages' = SubSeq(messages, 1, Len(messages) - 1)
    /\ exit_status' = exit_status

\* the handler "except Exception as e" of the loop
TurnError(e) ==
    /\ out' = <<"Error", e, Rule>>
    /\ pc' = "awaiting"
    /\ UNCHANGED <<messages, exit_status>>

\* the reply stored over the last turn (messages[-1] = ...) instead of appended
CompletionReturns_Replace ==
    /\ pc = "calling"
    /\ \E choices \in ChoiceLists :
         IF choices = <<>>
         THEN /\ signal' = "IndexError"
              /\ TurnError("IndexError")
         ELSE /\ signal' = ""
              /\ messages' = [messages EXCEPT
                                 ![Len(messages)] = Turn("assistant", choices[1])]
              /\ out' = <<"Assistant:", choices[1], Rule>>
              /\ pc' = "awaiting"
              /\ exit_status' = exit_status
    /\ UNCHANGED <<env_vars, loader_vars, judgment_text, system_prompt,
                   raw_line, user_input, n_reads, n_requests, request>>

\* the reply printed but not appended to messages
CompletionReturns_NoAppend ==
    /\ pc = "calling"
    /\ \E choices \in ChoiceLists :
         IF choices = <<>>
         THEN /\ signal' = "IndexError"
              /\ TurnError("IndexError")
         ELSE /\ signal' = ""
              /\ messages' = messages
              /\ out' = <<"Assistant:", choices[1], Rule>>
              /\ pc' = "awaiting"
              /\ exit_status' = exit_status
    /\ UNCHANGED <<env_vars, loader_vars, judgment_text, system_prompt,
                   raw_line, user_input, n_reads, n_requests, request>>

\* create returned a response: response.choices[0].message.content
CompletionReturns ==
    /\ pc = "calling"
    /\ \E choices \in ChoiceLists :
         IF choices = <<>>
         THEN /\ signal' = "IndexError"
              /\ TurnError("IndexError")
         ELSE /\ signal' = ""
              /\ messages' = Append(messages, Turn("assistant", choices[1]))
              /\ out' = <<"Assistant:", choices[1], Rule>>
              /\ pc' = "awaiting"
              /\ exit_status' = exit_status
    /\ UNCHANGED <<env_vars, loader_vars, judgment_text, system_prompt,
                   raw_line, user_input, n_reads, n_requests, request>>

\* create raised an exception of the API client
CompletionRaises ==
    /\ pc = "calling"
    /\ \E e \in ApiErrors :
         /\ signal' = e
         /\ IF IsException(e)
            THEN TurnError(e)
            ELSE /\ Propagate(e)
                 /\ messages' = messages
    /\ UNCHANGED <<env_vars, loader_vars, judgment_text, system_prompt,
                   raw_line, user_input, n_reads, n_requests, request>>

\* KeyboardInterrupt during create: it passes the loop's "except Exception"
\* and the one of __main__
CompletionInterrupted ==
    /\ pc = "calling"
    /\ signal' = "KeyboardInterrupt"
    /\ IF IsException("KeyboardInterrupt")
       THEN TurnError("KeyboardInterrupt")
       ELSE /\ Propagate("KeyboardInterrupt")
            /\ messages' = messages
    /\ UNCHANGED <<env_vars, loader_vars, judgment_text, system_prompt,
                   raw_line, user_input, n_reads, n_requests, request>>

Next ==
    \/ InitializeOpenAI
    \/ LoadJudgment
    \/ StartChat
    \/ InputSignal
    \/ InputExit
    \/ InputEmpty
    \/ InputClear
    \/ InputQuestion
    \/ CompletionReturns
    \/ CompletionRaises
    \/ CompletionInterrupted

Spec == Init /\ [][Next]_vars

----------------------------------------------------------------------------
(* The document loader on its own: repeated calls on arbitrary files *)

LoaderInit ==
    /\ pc = "loader"
    /\ env_key = FALSE
    /\ dotenv_key = FALSE
    /\ client = FALSE
    /\ judgment_text = <<>>
    /\ system_prompt = <<>>
    /\ messages = <<>>
    /\ raw_line = <<>>
    /\ user_input = <<>>
    /\ signal = ""
    /\ n_reads = 0
    /\ n_requests = 0
    /\ request = <<>>
    /\ out = <<>>
    /\ exit_status = -1
    /\ file = NoFile
    /\ result = <<>>
    /\ raised = FALSE
    /\ opened = 0
    /\ closed = 0
    /\ n_loads = 0

LoaderCall ==
    /\ pc = "loader"
    /\ n_loads < MaxLoads
    /\ \E f \in Files :
         LET r == extract_text_from_file(f)
         IN  /\ CallLoader(f, r)
             /\ out' = r.out
    /\ UNCHANGED <<env_vars, chat_vars, pc, exit_status>>

LoaderNext == LoaderCall

LoaderSpec == LoaderInit /\ [][LoaderNext]_vars

----------------------------------------------------------------------------
(* Vocabulary of the properties: the input lines by the class the console *)
(* protocol gives them, written out independently of strip and lower.     *)

ExitLines ==
    { <<"e", "x", "i", "t">>, <<" ", "Q", "u", "i", "t", "\t">>, <<"Q">> }

ClearLines ==
    { <<"c", "l", "e", "a", "r">>, <<" ", "C", "L", "e", "a", "r", " ">> }

BlankLines == { <<>>, <<" ", "\t">> }

QuestionLines ==
    { <<"H", "i">>, <<" ", "H", "i", " ">>,
      <<"l", "o", "a", "d", " ", "j", "u", "d", "g", "m", "e", "n", "t">> }

\* exceptions the turn-level handler is there for
TurnErrors == ApiErrors \cup { "IndexError" }

Last(s) == s[Len(s)]

\* this step is a return of input() with a line
LineRead == n_reads' = n_reads + 1

\* this step is the failure of the completion call in flight
CallFailed == pc = "calling" /\ signal' \in TurnErrors

\* this step is the success of the completion call in flight
CallSucceeded == pc = "calling" /\ signal' = ""

InLoop == pc \in {"awaiting", "calling"}

----------------------------------------------------------------------------
(* C1: in every state of the chat loop the transcript is non-empty, its   *)
(* first turn is the system turn built at startup, and no other turn has  *)
(* the system role.                                                       *)
C1_SystemTurnFirst ==
    InLoop =>
        /\ Len(messages) >= 1
        /\ messages[1] = [role |-> "system", content |-> system_prompt]
        /\ system_prompt = PromptHead \o judgment_text \o PromptTail
        /\ \A i \in 2..Len(messages) : messages[i].role # "system"

\* a clear has been handled after two exchanges
C1_Witness ==
    /\ pc = "awaiting"
    /\ raw_line \in ClearLines
    /\ n_requests >= 2
    /\ Len(messages) = 1

(* C2: when the completion call raises, the transcript is left as it was, *)
(* with the turn's user turn last and no assistant turn, the loop is back *)
(* at awaiting input and the process runs on; the next completion request *)
(* carries the whole transcript, the failed turn's user turn included.    *)
C2_FailureKeepsUserTurn ==
    [][ /\ CallFailed =>
            /\ messages' = messages
            /\ Last(messages').role = "user"
            /\ Last(messages').content = user_input
            /\ pc' = "awaiting"
            /\ exit_status' = -1
        /\ n_requests' # n_requests =>
            /\ Len(request') = Len(messages) + 1
            /\ SubSeq(request', 1, Len(messages)) = messages
      ]_vars

\* a request in flight whose transcript ends with two user turns: the
\* earlier one is of a failed call
C2_Witness ==
    /\ pc = "calling"
    /\ signal \in TurnErrors
    /\ Len(request) >= 3
    /\ request[Len(request) - 1].role = "user"
    /\ Last(request).role = "user"

(* C3: a clear line, in any letter case and with surrounding whitespace,  *)
(* resets the transcript to the one original system turn, sends no        *)
(* request and leaves the loop awaiting input; what is appended next      *)
(* starts from that transcript of length 1.                               *)
C3_ClearResets ==
    [][ /\ (LineRead /\ raw_line' \in ClearLines) =>
            /\ messages' = <<messages[1]>>
            /\ messages'[1] = [role |-> "system", content |-> system_prompt]
            /\ system_prompt' = system_prompt
            /\ n_requests' = n_requests
            /\ request' = request
            /\ pc' = "awaiting"
        /\ (pc = "awaiting" /\ raw_line \in ClearLines
               /\ messages' # messages) =>
            /\ Len(messages') = 2
            /\ messages'[1] = messages[1]
            /\ messages'[2] = [role |-> "user", content |-> user_input']
      ]_vars

\* two requests were sent and a clear lies between them
C3_Witness ==
    /\ pc = "calling"
    /\ n_requests >= 2
    /\ Len(messages) = 2

(* C4: an exit line (exit, quit, q in any letter case, whitespace         *)
(* trimmed) terminates the loop: no request, no turn appended, and no     *)
(* input is read afterwards.                                              *)
C4_ExitTerminates ==
    [][ /\ (LineRead /\ raw_line' \in ExitLines) =>
            /\ pc' = "exited"
            /\ messages' = messages
            /\ n_requests' = n_requests
            /\ request' = request
        /\ pc = "exited" => (n_reads' = n_reads /\ pc' = "exited")
      ]_vars

\* the loop was left by an exit line after an exchange
C4_Witness ==
    /\ pc = "exited"
    /\ raw_line \in ExitLines
    /\ Len(messages) >= 3

(* C5: an input that is neither a command nor empty causes exactly one    *)
(* completion request, carrying the whole transcript with the new user    *)
(* turn last; no other step sends a request (no retry after a failure);   *)
(* on success the returned text is appended as one assistant turn right   *)
(* after that user turn, before the next input is read.                   *)
C5_OneRequestPerQuestion ==
    [][ /\ (LineRead /\ raw_line' \in QuestionLines) =>
            /\ n_requests' = n_requests + 1
            /\ messages' = Append(messages,
                                  [role |-> "user", content |-> user_input'])
            /\ request' = messages'
            /\ pc' = "calling"
        /\ n_requests' # n_requests =>
            (LineRead /\ raw_line' \in QuestionLines)
        /\ pc = "calling" => (pc' # "calling" /\ n_reads' = n_reads)
        /\ CallSucceeded =>
            /\ messages = request
            /\ Len(messages') = Len(messages) + 1
            /\ SubSeq(messages', 1, Len(messages)) = messages
            /\ Last(messages').role = "assistant"
            /\ Last(messages').content = out'[2]
            /\ Last(messages).role = "user"
      ]_vars

\* a reply was appended after an earlier call had failed
C5_Witness ==
    /\ pc = "awaiting"
    /\ n_requests >= 2
    /\ Last(messages).role = "assistant"
    /\ messages[Len(messages) - 2].role = "user"

(* C6: when the credential variable is absent at startup the program      *)
(* prints a message and the process ends with a non-zero exit status.     *)
C6_MissingCredentialFails ==
    (pc = "exited" /\ ~env_key /\ ~client) =>
        (out # <<>> /\ exit_status # 0)

(* C7: the credential check comes first and fails fast: while the         *)
(* credential is absent the document loader is never called, the loop     *)
(* never awaits input, no line is read and no request is sent; the        *)
(* loader only ever runs after the client was created.                    *)
C7_FailFast ==
    /\ (~env_key /\ ~dotenv_key) =>
           /\ pc \in {"main", "exited"}
           /\ n_loads = 0
           /\ opened = 0
           /\ n_reads = 0
           /\ n_requests = 0
           /\ messages = <<>>
    /\ n_loads > 0 => (client /\ env_key)
    /\ pc \notin {"main", "exited"} => client

\* the process has ended on the missing credential
C7_Witness ==
    /\ pc = "exited"
    /\ ~env_key
    /\ ~dotenv_key
    /\ out # <<>>
    /\ out[1] = "Critical Error"

\* extensions that are ".pdf" in some letter case
PdfExts == { <<".", "p", "d", "f">>, <<".", "P", "d", "F">> }

\* the cases in which loading the file fails
LoadFails(f) ==
    \/ ~f.exists
    \/ /\ f.ext \in PdfExts
       /\ (~f.open_ok \/ \E i \in 1..Len(f.pages) : ~f.pages[i].ok)
    \/ /\ f.ext \notin PdfExts
       /\ ~f.read_ok

Diagnostics ==
    { "Error: File does not exist", "Error extracting text from PDF",
      "Error extracting text from file" }

(* C8: extract_text_from_file never raises to its caller; for a missing   *)
(* path, a PDF whose open or page extraction fails, and a text file whose *)
(* read or decoding fails, it prints a diagnostic and returns the empty   *)
(* string.                                                                *)
C8_LoaderNeverRaises ==
    n_loads > 0 =>
        /\ ~raised
        /\ LoadFails(file) =>
               /\ result = <<>>
               /\ out # <<>>
               /\ Last(out) \in Diagnostics

\* the last call was on a text file whose read failed
C8_Witness ==
    /\ n_loads >= 2
    /\ file.exists
    /\ file.ext \notin PdfExts
    /\ ~file.read_ok
    /\ result = <<>>
    /\ ~raised

(* C9: the PDF document handle is closed on every exit path of the        *)
(* extraction routine: once a call has returned, every handle opened so   *)
(* far has been closed, whatever the number of calls.                     *)
C9_HandlesClosed == opened = closed

(* C10: an end-of-input or interrupt signal while the loop waits for a    *)
(* line prints an exit message and ends the loop as an exit line does:    *)
(* no request is sent, no turn is appended, the exit status is 0.         *)
C10_SignalWhileWaiting ==
    [][ (pc = "awaiting" /\ n_reads' = n_reads
            /\ signal' \in {"EOFError", "KeyboardInterrupt"}) =>
            /\ out' = <<"Exiting...">>
            /\ pc' = "exited"
            /\ exit_status' = 0
            /\ messages' = messages
            /\ n_requests' = n_requests
            /\ request' = request
      ]_vars

\* the loop was left on an interrupt after an exchange had begun
C10_Witness ==
    /\ pc = "exited"
    /\ signal = "KeyboardInterrupt"
    /\ out = <<"Exiting...">>
    /\ Len(messages) >= 2

(* C11: the transcript is append-only between clears: in every step other *)
(* than the handling of a clear line the transcript before the step is a  *)
(* prefix of the transcript after it, and at most one turn is appended.   *)
C11_AppendOnly ==
    [][ ~(LineRead /\ raw_line' \in ClearLines) =>
            /\ Len(messages') \in { Len(messages), Len(messages) + 1 }
            /\ SubSeq(messages', 1, Len(messages)) = messages
      ]_vars

\* two exchanges have been appended, the last one answered
C11_Witness ==
    /\ pc = "awaiting"
    /\ Len(messages) >= 5
    /\ Last(messages).role = "assistant"

(* C12: whatever the document loader does at startup, once the credential *)
(* is present the program goes on from the load to the chat session and   *)
(* to awaiting input, never to the end of the process; after a failed or  *)
(* empty load the system turn is built with empty document text.          *)
C12_LoadNeverBlocksChat ==
    [][ /\ pc = "load" =>
            /\ client
            /\ pc' = "chat"
            /\ exit_status' = -1
            /\ (LoadFails(file') \/ result' = <<>>) => judgment_text' = <<>>
        /\ pc = "chat" =>
            /\ pc' = "awaiting"
            /\ exit_status' = -1
            /\ Len(messages') = 1
            /\ messages'[1].role = "system"
            /\ judgment_text = <<>> =>
                   messages'[1].content = PromptHead \o PromptTail
      ]_vars

\* the loop awaits input after a load in which a page's extraction failed
C12_Witness ==
    /\ pc = "awaiting"
    /\ file.exists
    /\ file.open_ok
    /\ \E i \in 1..Len(file.pages) : ~file.pages[i].ok
    /\ messages[1].content = PromptHead \o PromptTail

\* the first n page texts, each after the first preceded by a blank line
RECURSIVE PagesJoined(_, _)
PagesJoined(p, n) ==
    IF n = 0 THEN <<>>
    ELSE IF n = 1 THEN p[1].text
    ELSE PagesJoined(p, n - 1) \o <<"\n", "\n">> \o p[n].text

\* the call made in this step is on an existing file f
Loaded(f) == n_loads' = n_loads + 1 /\ file' = f /\ f.exists

(* C13: for an existing file whose extension is .pdf in any letter case   *)
(* and whose extraction succeeds, the loader returns the page texts in    *)
(* document order joined by a double newline; a file of any other         *)
(* extension is read as plain text and never handed to the PDF engine.    *)
C13_PdfPagesJoined ==
    [][ \A f \in Files : Loaded(f) =>
            /\ (f.ext \in PdfExts /\ ~LoadFails(f)) =>
                   /\ result' = PagesJoined(f.pages, Len(f.pages))
                   /\ opened' = opened + 1
            /\ f.ext \notin PdfExts =>
                   /\ opened' = opened
                   /\ closed' = closed
                   /\ \A i \in 1..Len(out') :
                          out'[i] # "Extracting text from PDF"
                   /\ f.read_ok => result' = f.content
      ]_vars

\* a two-page document named .PdF was loaded
C13_Witness ==
    /\ n_loads >= 1
    /\ file.exists
    /\ file.ext = <<".", "P", "d", "F">>
    /\ Len(file.pages) = 2
    /\ ~LoadFails(file)
    /\ result = <<"a", "\n", "\n", "a">>

(* C14: an empty or whitespace-only line is ignored: the transcript is    *)
(* unchanged, no request is sent and the loop stays awaiting input.       *)
C14_BlankIgnored ==
    [][ (LineRead /\ raw_line' \in BlankLines) =>
            /\ pc = "awaiting"
            /\ pc' = "awaiting"
            /\ messages' = messages
            /\ n_requests' = n_requests
            /\ request' = request
            /\ exit_status' = exit_status
      ]_vars

\* a whitespace-only line was read when the transcript held an exchange
C14_Witness ==
    /\ pc = "awaiting"
    /\ raw_line = <<" ", "\t">>
    /\ Len(messages) >= 3

\* the characters that count as surrounding whitespace of a line
BlankChars == { " ", "\t", "\n" }

\* c is what is left of the line raw without its surrounding whitespace
IsTrimOf(c, raw) ==
    \E i \in 1..Len(raw) : \E j \in i..Len(raw) :
        /\ c = SubSeq(raw, i, j)
        /\ raw[i] \notin BlankChars
        /\ raw[j] \notin BlankChars
        /\ \A k \in 1..(i - 1) : raw[k] \in BlankChars
        /\ \A k \in (j + 1)..Len(raw) : raw[k] \in BlankChars

(* C15, as stated: for an input that is neither a command nor empty, the  *)
(* user turn appended carries the raw line as it was read, leading and    *)
(* trailing whitespace included.                                          *)
C15_RawInputKept ==
    [][ (LineRead /\ raw_line' \in QuestionLines) =>
            /\ Len(messages') = Len(messages) + 1
            /\ Last(messages').role = "user"
            /\ Last(messages').content = raw_line'
      ]_vars

(* C15, amended: for an input that is neither a command nor empty, the    *)
(* user turn appended carries the line with its leading and trailing      *)
(* whitespace removed and otherwise unchanged, letter case included.      *)
C15_TrimmedInputKept ==
    [][ (LineRead /\ raw_line' \in QuestionLines) =>
            /\ Len(messages') = Len(messages) + 1
            /\ Last(messages').role = "user"
            /\ IsTrimOf(Last(messages').content, raw_line')
      ]_vars

\* the line " Hi " is in flight as the user turn "Hi"
C15_Witness ==
    /\ pc = "calling"
    /\ raw_line = <<" ", "H", "i", " ">>
    /\ Last(messages) = [role |-> "user", content |-> <<"H", "i">>]

LoadJudgmentLine ==
    <<"l", "o", "a", "d", " ", "j", "u", "d", "g", "m", "e", "n", "t">>

RECURSIVE CountRole(_, _, _)
CountRole(m, r, n) ==
    IF n = 0 THEN 0
    ELSE CountRole(m, r, n - 1) + (IF m[n].role = r THEN 1 ELSE 0)

\* the shape of a transcript: every assistant turn directly follows a user
\* turn, and a user turn that is last while the loop awaits input is the
\* one of a failed call
TranscriptShape ==
    /\ \A i \in 1..Len(messages) :
           messages[i].role = "assistant" =>
               (i > 1 /\ messages[i - 1].role = "user")
    /\ \A i \in 1..(Len(messages) - 1) :
           ~(messages[i].role = "assistant"
               /\ messages[i + 1].role = "assistant")
    /\ CountRole(messages, "assistant", Len(messages))
           <= CountRole(messages, "user", Len(messages))
    /\ (pc = "awaiting" /\ messages # <<>> /\ Last(messages).role = "user")
           => signal \in TurnErrors

(* C17: in every transcript each assistant turn directly follows a user   *)
(* turn, so assistant turns are never adjacent nor more numerous than     *)
(* user turns; a user turn is appended directly after another user turn   *)
(* only when the completion call for the earlier one has failed.          *)
C17_TurnsAlternate ==
    /\ []TranscriptShape
    /\ [][ (Len(messages') = Len(messages) + 1
              /\ Last(messages').role = "user"
              /\ Last(messages).role = "user") =>
               (pc = "awaiting" /\ signal \in TurnErrors)
         ]_vars

\* a question was answered after the call for the one before it had failed
C17_Witness ==
    /\ pc = "awaiting"
    /\ Len(messages) >= 4
    /\ messages[Len(messages) - 2].role = "user"
    /\ messages[Len(messages) - 1].role = "user"
    /\ Last(messages).role = "assistant"

(* C18: an interrupt while the completion call is in flight is not taken  *)
(* by the turn-level handler: the loop does not go back to awaiting       *)
(* input, no assistant turn is appended, and the process ends without the *)
(* exit or the farewell message, unlike an interrupt while waiting for    *)
(* input.                                                                 *)
C18_InterruptInFlight ==
    [][ (pc = "calling" /\ signal' = "KeyboardInterrupt") =>
            /\ pc' = "exited"
            /\ messages' = messages
            /\ \A i \in 1..Len(out') :
                   /\ out'[i] # "Exiting..."
                   /\ out'[i] #
                        "Goodbye! Thank you for using the Legal Assistant."
                   /\ out'[i] # "Error"
                   /\ out'[i] # "Critical Error"
      ]_vars

\* the process has ended on an interrupt received during a call
C18_Witness ==
    /\ pc = "exited"
    /\ signal = "KeyboardInterrupt"
    /\ Last(messages).role = "user"
    /\ out # <<"Exiting...">>
    /\ n_requests >= 1

====
